---- MODULE Spec2Model ----
(***************************************************************************)
(* Model of the GLIMS Cobas validation data processor                      *)
(* (cobas_validation_data_processor.py, excel_csv_handler.py).             *)
(*                                                                         *)
(* Python strings are tuples of one-character strings, so that lower(),    *)
(* replace() and the substring test `in` are computed character by         *)
(* character.  None is the one-element tuple <<"<None>">>, which is no     *)
(* string of characters.                                                   *)
(***************************************************************************)
EXTENDS Integers, Sequences, FiniteSets, TLC

VARIABLES
    CONFIG,         \* the loaded config_data.json (immutable after Init)
    sheetnames,     \* workbook.sheetnames, in workbook order
    cells,          \* the workbook's cells: <<sheet, row, col>> -> value
    glims_df,       \* the loaded CSV: [columns, rows]
    pc,             \* position of the run in main / process_*
    is_reproducibility, \* answer to the workflow prompt
    analyser_number,    \* result of prompt_for_analyser_number
    retry,              \* loop counter of prompt_for_analyser_number
    row_i,          \* index of the CSV row the current loop is at
    fld_i,          \* index of the mnemonic process_skml is at
    measurements,   \* build_repro_measurements: mnemonic -> list
    test_i,         \* write_repro_results: position in measurements.items()
    meas_i,         \* write_repro_results: position in the sorted list
    row_control_1,  \* running row of 'REPRO controle 1'
    row_control_2,  \* running row of 'REPRO controle 2'
    calls,          \* history: update_excel_cell / determine_repro_sheet calls
    warnings,       \* history: warnings printed
    cancelled,      \* history: the prompts the user cancelled
    saved           \* history: number of save_excel_workbook calls

vars == <<CONFIG, sheetnames, cells, glims_df, pc, is_reproducibility,
          analyser_number, retry, row_i, fld_i, measurements, test_i, meas_i,
          row_control_1, row_control_2, calls, warnings, cancelled, saved>>

-----------------------------------------------------------------------------
(* Python values and string operations *)

None == <<"<None>">>
EmptyStr == <<>>
\* float('nan'): what pandas gives for an absent CSV field
NaN == <<"<NaN>">>
\* isinstance(value, str)
IsStr(value) == value \notin {None, NaN}
\* None where the code otherwise holds an integer (a row, a column, an index)
NoneInt == -1

UpperLetters == <<"A","B","C","D","E","F","G","H","I","J","K","L","M",
                  "N","O","P","Q","R","S","T","U","V","W","X","Y","Z">>
LowerLetters == <<"a","b","c","d","e","f","g","h","i","j","k","l","m",
                  "n","o","p","q","r","s","t","u","v","w","x","y","z">>

LowerOf == [c \in {UpperLetters[i] : i \in DOMAIN UpperLetters} |->
               LowerLetters[CHOOSE i \in DOMAIN UpperLetters : UpperLetters[i] = c]]

LowerChar(c) == IF c \in DOMAIN LowerOf THEN LowerOf[c] ELSE c

\* str.lower()
Lower(s) == [i \in DOMAIN s |-> LowerChar(s[i])]

\* str.replace(old, new) for one-character old and new
Replace(s, old, new) == [i \in DOMAIN s |-> IF s[i] = old THEN new ELSE s[i]]

\* needle in hay (substring test)
Contains(hay, needle) ==
    \E k \in 0..(Len(hay) - Len(needle)) :
        \A i \in 1..Len(needle) : hay[k + i] = needle[i]

\* str.startswith(prefix)
StartsWith(s, prefix) ==
    /\ Len(prefix) <= Len(s)
    /\ \A i \in 1..Len(prefix) : s[i] = prefix[i]

\* x in list
InList(x, list) == \E i \in DOMAIN list : list[i] = x

\* list.index(x): the first position of x
IndexOf(x, list) == CHOOSE i \in DOMAIN list :
                        list[i] = x /\ \A j \in 1..(i - 1) : list[j] # x

SeqToSet(s) == {s[i] : i \in DOMAIN s}

-----------------------------------------------------------------------------
(* Module constants of cobas_validation_data_processor.py *)

C_MODULE_SHEET_INDEX == 0
E_MODULE_SHEET_INDEX == 1
C_MODULE_BASE_OFFSET_8000 == 8
C_MODULE_BASE_OFFSET_PRO == 9
E_MODULE_BASE_OFFSET_8000 == 14
E_MODULE_BASE_OFFSET_PRO == 15
DEFAULT_TESTRUN_OFFSET == 40
REPRO_FIRST_DATA_ROW == 3
REPRO_HEADER_ROW == 2
EXCEL_NAME_COLUMN == 1
EXCEL_ROW_START == 2

REPRO1 == "REPRO controle 1"
REPRO2 == "REPRO controle 2"
REPRO3 == "REPRO controle 3"

-----------------------------------------------------------------------------
(* The workbook (openpyxl) and ExcelCsvHandler *)

\* sheet.cell(row, column).value: a cell never touched holds None
CellValue(wb, sheet, row, col) ==
    IF <<sheet, row, col>> \in DOMAIN wb THEN wb[<<sheet, row, col>>] ELSE None

\* cell.value not in (None, '')
CellPopulated(wb, sheet, row, col) ==
    CellValue(wb, sheet, row, col) \notin {None, EmptyStr}

\* mutant: the emptiness test is dropped, every call overwrites
update_excel_cell_overwrite(wb, names, sheet, row, col, value) ==
    IF ~InList(sheet, names) THEN wb
    ELSE [k \in DOMAIN wb \cup {<<sheet, row, col>>} |->
             IF k = <<sheet, row, col>> THEN value ELSE wb[k]]

\* ExcelCsvHandler.update_excel_cell: the workbook after the call
update_excel_cell(wb, names, sheet, row, col, value) ==
    IF ~InList(sheet, names) THEN wb                     \* KeyError: log, return
    ELSE IF CellPopulated(wb, sheet, row, col) THEN wb   \* not empty: return
    ELSE [k \in DOMAIN wb \cup {<<sheet, row, col>>} |->
             IF k = <<sheet, row, col>> THEN value ELSE wb[k]]

SheetCells(wb, sheet) == {k \in DOMAIN wb : k[1] = sheet}

Max(S) == CHOOSE x \in S : \A y \in S : y <= x

\* worksheet.max_row / worksheet.max_column (1 for a sheet without cells)
max_row(wb, sheet) == Max({1} \cup {k[2] : k \in SheetCells(wb, sheet)})
max_column(wb, sheet) == Max({1} \cup {k[3] : k \in SheetCells(wb, sheet)})

-----------------------------------------------------------------------------
(* Configuration tables (module globals loaded from config_data.json) *)

OFFSET_MAP == CONFIG.offset_map
TEST_MNEMONICS == CONFIG.test_mnemonics
QC_MATERIAL == CONFIG.qc_material
QC_MATERIAL_PRO == CONFIG.qc_material_pro
SKIP_HIV == CONFIG.skip_hiv

-----------------------------------------------------------------------------
(* Names the source fixes *)

VLK == <<"V","L","K","_">>
VLK_Hemolyse == VLK \o <<"H","e","m","o","l","y","s","e">>
VLK_Ict_V == VLK \o <<"I","c","t","-","V">>
VLK_Lip_V == VLK \o <<"L","i","p","-","V">>
VLK_PC_HIV_3 == VLK \o <<"P","C","_","H","I","V","_","3">>
VLK_PC_HIV_5 == VLK \o <<"P","C","_","H","I","V","_","5">>
VLK_Bil == VLK \o <<"B","i","l">>
VLK_Vrij == VLK \o <<"V","r","i","j">>
VLK_PRO_4_C503 == VLK \o <<"P","R","O","-","4","_","C","5","0","3">>
VLK_PRO_3_C503 == VLK \o <<"P","R","O","-","3","_","C","5","0","3">>
VLK_PRO_4_C703 == VLK \o <<"P","R","O","-","4","_","C","7","0","3">>
VLK_PRO_3_C703 == VLK \o <<"P","R","O","-","3","_","C","7","0","3">>
VLK_C500PRO_01 == VLK \o <<"C","5","0","0","P","R","O","-","0","1">>
m_ahiv_eclia_ser == <<"m","_","a","h","i","v","_","e","c","l","i","a","_","s","e","r">>
m_hivag_eclia_ser == <<"m","_","h","i","v","a","g","_","e","c","l","i","a","_","s","e","r">>
S8000 == <<"8","0","0","0">>
Dash == <<"-">>
KPrefix == <<"k","_">>

-----------------------------------------------------------------------------
(* Placement resolvers *)

\* get_testrun_column_offset (the warning is recorded by the caller)
get_testrun_column_offset(testrun) ==
    IF testrun \in DOMAIN OFFSET_MAP THEN OFFSET_MAP[testrun]
    ELSE DEFAULT_TESTRUN_OFFSET

LowerAll(list) == [i \in DOMAIN list |-> Lower(list[i])]

\* mutant: the mnemonic is compared without lowering it
get_sheet_and_column_base_case_sensitive(mnemonic, patient_id, test_codes_map) ==
    IF InList(mnemonic, LowerAll(test_codes_map.c_module))
    THEN <<C_MODULE_SHEET_INDEX,
           IF Contains(patient_id, S8000) THEN C_MODULE_BASE_OFFSET_8000
           ELSE C_MODULE_BASE_OFFSET_PRO>>
    ELSE IF InList(mnemonic, LowerAll(test_codes_map.e_module))
    THEN <<E_MODULE_SHEET_INDEX,
           IF Contains(patient_id, S8000) THEN E_MODULE_BASE_OFFSET_8000
           ELSE E_MODULE_BASE_OFFSET_PRO>>
    ELSE <<NoneInt, NoneInt>>

\* get_sheet_and_column_base: <<worksheet_index, base_column_index>>
get_sheet_and_column_base(mnemonic, patient_id, test_codes_map) ==
    IF InList(Lower(mnemonic), LowerAll(test_codes_map.c_module))
    THEN <<C_MODULE_SHEET_INDEX,
           IF Contains(patient_id, S8000) THEN C_MODULE_BASE_OFFSET_8000
           ELSE C_MODULE_BASE_OFFSET_PRO>>
    ELSE IF InList(Lower(mnemonic), LowerAll(test_codes_map.e_module))
    THEN <<E_MODULE_SHEET_INDEX,
           IF Contains(patient_id, S8000) THEN E_MODULE_BASE_OFFSET_8000
           ELSE E_MODULE_BASE_OFFSET_PRO>>
    ELSE <<NoneInt, NoneInt>>

\* str.strip() of blanks
RECURSIVE Strip(_)
Strip(s) ==
    IF s = <<>> THEN s
    ELSE IF Head(s) = " " THEN Strip(Tail(s))
    ELSE IF s[Len(s)] = " " THEN Strip(SubSeq(s, 1, Len(s) - 1))
    ELSE s

\* the test of one worksheet row in find_test_row_in_worksheet
NameMatches(wb, sheet, row, mnemonic) ==
    LET v == CellValue(wb, sheet, row, EXCEL_NAME_COLUMN + 1)
    IN  /\ v \notin {None, EmptyStr}
        /\ Lower(Strip(v)) = Lower(mnemonic)

\* find_test_row_in_worksheet: the first matching row, or None
find_test_row_in_worksheet(wb, sheet, mnemonic) ==
    LET hits == {r \in EXCEL_ROW_START..max_row(wb, sheet) :
                    NameMatches(wb, sheet, r, mnemonic)}
    IN  IF hits = {} THEN NoneInt
        ELSE CHOOSE r \in hits : \A q \in hits : r <= q

\* get_repro_test_column: the first matching header column, or None
get_repro_test_column(wb, sheet, mnemonic) ==
    LET hits == {c \in 1..max_column(wb, sheet) :
                    /\ CellValue(wb, sheet, REPRO_HEADER_ROW, c) # None
                    /\ Lower(CellValue(wb, sheet, REPRO_HEADER_ROW, c))
                           = Lower(mnemonic)}
    IN  IF hits = {} THEN NoneInt
        ELSE CHOOSE c \in hits : \A q \in hits : c <= q

ErrUnknownAnalyser == "ValueError: Unknown analyser"
ErrUnknownQc == "ValueError: Unknown QC material"
ErrDeprecated == "ValueError: Non-Pro validation is deprecated"
Errors == {ErrUnknownAnalyser, ErrUnknownQc, ErrDeprecated}

\* mutant: the tier lists are consulted before the interference materials
determine_repro_sheet_tiers_first(pro_validation, qc_material, analyser) ==
    IF pro_validation /\ (\/ InList(qc_material, QC_MATERIAL_PRO.low)
                          \/ InList(qc_material, QC_MATERIAL.low)) THEN REPRO1
    ELSE IF pro_validation /\ (\/ InList(qc_material, QC_MATERIAL_PRO.high)
                               \/ InList(qc_material, QC_MATERIAL.high))
    THEN REPRO2
    ELSE IF qc_material \in {VLK_Hemolyse, VLK_Ict_V, VLK_Lip_V}
    THEN IF analyser \in {VLK_PRO_4_C503, VLK_PRO_3_C503} THEN REPRO1
         ELSE IF analyser \in {VLK_PRO_4_C703, VLK_PRO_3_C703} THEN REPRO2
         ELSE IF analyser = VLK_C500PRO_01 THEN REPRO3
         ELSE ErrUnknownAnalyser
    ELSE IF pro_validation
    THEN IF \/ Contains(qc_material, VLK_Bil)
            \/ Contains(qc_material, VLK_Vrij) THEN REPRO3
         ELSE ErrUnknownQc
    ELSE ErrDeprecated

\* determine_repro_sheet: the sheet name, or the ValueError raised
determine_repro_sheet(pro_validation, qc_material, analyser) ==
    IF qc_material \in {VLK_Hemolyse, VLK_Ict_V, VLK_Lip_V}
    THEN IF analyser \in {VLK_PRO_4_C503, VLK_PRO_3_C503} THEN REPRO1
         ELSE IF analyser \in {VLK_PRO_4_C703, VLK_PRO_3_C703} THEN REPRO2
         ELSE IF analyser = VLK_C500PRO_01 THEN REPRO3
         ELSE ErrUnknownAnalyser
    ELSE IF pro_validation
    THEN IF \/ InList(qc_material, QC_MATERIAL_PRO.low)
            \/ InList(qc_material, QC_MATERIAL.low) THEN REPRO1
         ELSE IF \/ InList(qc_material, QC_MATERIAL_PRO.high)
                 \/ InList(qc_material, QC_MATERIAL.high) THEN REPRO2
         ELSE IF \/ Contains(qc_material, VLK_Bil)
                 \/ Contains(qc_material, VLK_Vrij) THEN REPRO3
         ELSE ErrUnknownQc
    ELSE ErrDeprecated

\* the hiv_mappings dict of apply_hiv_sheet_override
hiv_mappings ==
    (<<m_ahiv_eclia_ser, VLK_PC_HIV_3>> :> REPRO1) @@
    (<<m_hivag_eclia_ser, VLK_PC_HIV_3>> :> REPRO2) @@
    (<<m_ahiv_eclia_ser, VLK_PC_HIV_5>> :> REPRO2) @@
    (<<m_hivag_eclia_ser, VLK_PC_HIV_5>> :> REPRO1)

\* mutant: no override, the tier-based sheet is kept
apply_hiv_sheet_override_none(test_name, qc_material, default_sheet) ==
    default_sheet

\* mutant: the override is keyed by the QC material alone
apply_hiv_sheet_override_any_test(test_name, qc_material, default_sheet) ==
    IF qc_material = VLK_PC_HIV_3 THEN REPRO1
    ELSE IF qc_material = VLK_PC_HIV_5 THEN REPRO2
    ELSE default_sheet

\* apply_hiv_sheet_override: hiv_mappings.get((test, qc), default_sheet)
apply_hiv_sheet_override(test_name, qc_material, default_sheet) ==
    IF <<test_name, qc_material>> \in DOMAIN hiv_mappings
    THEN hiv_mappings[<<test_name, qc_material>>]
    ELSE default_sheet

\* str(value).replace('.', ',') for a string value
DecimalComma(value) == Replace(value, ".", ",")

\* dateutil parser.parse(text, dayfirst=True) of the text "a-b-<year>":
\* day first unless only month first gives a month; the day of the year
\* as month * 100 + day, or ParserError
ParserError == 0 - 1

parse(d) ==
    LET dmy == d.a > 12 \/ d.b <= 12
        day == IF dmy THEN d.a ELSE d.b
        month == IF dmy THEN d.b ELSE d.a
    IN  IF month \in 1..12 /\ day \in 1..31 THEN month * 100 + day
        ELSE ParserError

\* list.sort(key=lambda x: x[0]): a stable insertion by the datetime
RECURSIVE InsertByDatetime(_, _)
InsertByDatetime(sorted, m) ==
    IF sorted = <<>> THEN <<m>>
    ELSE IF sorted[Len(sorted)].datetime <= m.datetime THEN Append(sorted, m)
    ELSE Append(InsertByDatetime(SubSeq(sorted, 1, Len(sorted) - 1), m),
                sorted[Len(sorted)])

RECURSIVE SortPrefix(_, _)
SortPrefix(list, n) ==
    IF n = 0 THEN <<>> ELSE InsertByDatetime(SortPrefix(list, n - 1), list[n])

\* mutant: the list is written in input order
sort_by_datetime_unsorted(list) == list

sort_by_datetime(list) == SortPrefix(list, Len(list))

\* the value conversion of process_skml and update_repro_row
value_to_write(value) == IF IsStr(value) THEN DecimalComma(value) ELSE value

-----------------------------------------------------------------------------
(* History records *)

Call(fn, sheet, row, col, value, stored, test, src, qc) ==
    [fn |-> fn, sheet |-> sheet, row |-> row, col |-> col, value |-> value,
     stored |-> stored, test |-> test, src |-> src, qc |-> qc]

\* whether update_excel_cell stores the value
Stores(wb, names, sheet, row, col) ==
    InList(sheet, names) /\ ~CellPopulated(wb, sheet, row, col)

-----------------------------------------------------------------------------
(* prompt_for_analyser_number *)

retry_limit == 3

\* int(user_input) of the answers the model offers; ValueError otherwise
IsInt(text) == text \in {<<"3">>, <<"4">>, <<"5">>}
IntOf(text) == IF text = <<"3">> THEN 3 ELSE IF text = <<"4">> THEN 4 ELSE 5

AnalyserAnswers == {None, <<"3">>, <<"4">>, <<"5">>, <<"x">>}

\* one pass of the retry loop: simpledialog.askstring and its handling
prompt_for_analyser_number ==
    /\ pc = "prompt_analyser"
    /\ \E user_input \in AnalyserAnswers :
        IF user_input = None
        THEN /\ analyser_number' = NoneInt
             /\ cancelled' = cancelled \cup {"analyser number"}
             /\ pc' = "build"
             /\ retry' = 0
        ELSE IF IsInt(user_input) /\ IntOf(user_input) \in {3, 4}
        THEN /\ analyser_number' = IntOf(user_input)
             /\ pc' = "build"
             /\ retry' = 0
             /\ UNCHANGED cancelled
        ELSE /\ retry' = IF retry + 1 >= retry_limit THEN 0 ELSE retry + 1
             /\ analyser_number' = NoneInt
             /\ pc' = IF retry + 1 >= retry_limit THEN "build"
                      ELSE "prompt_analyser"
             /\ UNCHANGED cancelled
    /\ UNCHANGED <<CONFIG, sheetnames, cells, glims_df, is_reproducibility,
                   row_i, fld_i, measurements, test_i, meas_i, row_control_1,
                   row_control_2, calls, warnings, saved>>

-----------------------------------------------------------------------------
(* process_reproducibility: build_repro_measurements *)

\* column.lower() for column in glims_df.columns[3:]
repro_test_mnemonics == LowerAll(SubSeq(glims_df.columns, 4, Len(glims_df.columns)))

\* f"PRO-{analyser_number}"
ProToken(n) == <<"P","R","O","-">> \o (IF n = 3 THEN <<"3">> ELSE <<"4">>)

\* whether the row passes the date, exclusion and analyser tests
RowKept(row) ==
    /\ parse(row[1]) # ParserError
    /\ row[2] \notin SKIP_HIV
    /\ analyser_number # NoneInt => Contains(row[3], ProToken(analyser_number))

Measurement(row, src, value) ==
    [datetime |-> parse(row[1]), value |-> value, qc_material |-> row[2],
     analyser |-> row[3], src |-> src]

\* the measurements dict after the value loop of one row
RECURSIVE AppendValues(_, _, _, _)
AppendValues(ms, row, src, index) ==
    IF index > Len(row) - 3 THEN ms
    ELSE LET value == row[3 + index]
             test == repro_test_mnemonics[index]
         IN  AppendValues(
                 IF value # Dash /\ value # None
                 THEN [ms EXCEPT ![test] = Append(@, Measurement(row, src, value))]
                 ELSE ms,
                 row, src, index + 1)

\* mutant: the exclusion test is dropped
build_row_keep_excluded(ms, row, src) ==
    IF /\ parse(row[1]) # ParserError
       /\ analyser_number # NoneInt => Contains(row[3], ProToken(analyser_number))
    THEN AppendValues(ms, row, src, 1) ELSE ms

\* mutant: a row with an unparseable date is not skipped
build_row_keep_unparsed(ms, row, src) ==
    IF /\ row[2] \notin SKIP_HIV
       /\ analyser_number # NoneInt => Contains(row[3], ProToken(analyser_number))
    THEN AppendValues(ms, row, src, 1) ELSE ms

\* one iteration of the row loop: the measurements dict after it
build_row(ms, row, src) ==
    IF RowKept(row) THEN AppendValues(ms, row, src, 1) ELSE ms

build_repro_measurements ==
    /\ pc = "build"
    /\ IF row_i > Len(glims_df.rows)
       THEN /\ pc' = "write"
            /\ UNCHANGED <<row_i, measurements, warnings>>
       ELSE /\ measurements' = build_row(measurements, glims_df.rows[row_i], row_i)
            /\ warnings' = IF parse(glims_df.rows[row_i][1]) = ParserError
                           THEN Append(warnings, [what |-> "Invalid date format",
                                                  src |-> row_i])
                           ELSE warnings
            /\ row_i' = row_i + 1
            /\ pc' = pc
    /\ UNCHANGED <<CONFIG, sheetnames, cells, glims_df, is_reproducibility,
                   analyser_number, retry, fld_i, test_i, meas_i, row_control_1,
                   row_control_2, calls, cancelled, saved>>

-----------------------------------------------------------------------------
(* process_reproducibility: write_repro_results *)

\* the keys of {mnemonic: [] for mnemonic in test_mnemonics}, in dict order
RECURSIVE DictKeys(_)
DictKeys(list) ==
    IF list = <<>> THEN <<>>
    ELSE LET front == DictKeys(SubSeq(list, 1, Len(list) - 1))
         IN  IF InList(list[Len(list)], front) THEN front
             ELSE Append(front, list[Len(list)])

test_names == DictKeys(repro_test_mnemonics)

\* the sheet a measurement is routed to: determine_repro_sheet, then the
\* HIV override; an element of Errors when determine_repro_sheet raises
routed_sheet(test_name, m) ==
    LET sheet_name == determine_repro_sheet(TRUE, m.qc_material, m.analyser)
    IN  IF sheet_name \in Errors THEN sheet_name
        ELSE apply_hiv_sheet_override(test_name, m.qc_material, sheet_name)

\* update_repro_row: the workbook after the call
update_repro_row(wb, names, sheet_name, row_index, column_index, m) ==
    IF ~InList(sheet_name, names) THEN wb
    ELSE IF column_index = NoneInt THEN wb
    ELSE update_excel_cell(wb, names, sheet_name, row_index, column_index,
                           value_to_write(m.value))

\* the head of the loop over measurements_by_test.items(): sort, reset rows
write_repro_begin_test ==
    /\ pc = "write"
    /\ meas_i = 0
    /\ IF test_i > Len(test_names)
       THEN /\ pc' = "processed"
            /\ UNCHANGED <<measurements, meas_i, row_control_1, row_control_2>>
       ELSE /\ measurements' = [measurements EXCEPT ![test_names[test_i]] =
                                    sort_by_datetime(@)]
            /\ row_control_1' = REPRO_FIRST_DATA_ROW
            /\ row_control_2' = REPRO_FIRST_DATA_ROW
            /\ meas_i' = 1
            /\ pc' = pc
    /\ UNCHANGED <<CONFIG, sheetnames, cells, glims_df, is_reproducibility,
                   analyser_number, retry, row_i, fld_i, test_i, calls,
                   warnings, cancelled, saved>>

\* mutant: a row counter advances only when the value was stored
write_repro_measurement_count_stored ==
    /\ pc = "write"
    /\ meas_i > 0
    /\ LET test_name == test_names[test_i]
           list == measurements[test_name]
       IN  IF meas_i > Len(list)
           THEN /\ test_i' = test_i + 1
                /\ meas_i' = 0
                /\ UNCHANGED <<pc, cells, row_control_1, row_control_2, calls,
                               warnings>>
           ELSE
           LET m == list[meas_i]
               sheet_name == routed_sheet(test_name, m)
               determined == Call("determine_repro_sheet", sheet_name, 0, 0,
                                  m.value, FALSE, test_name, m.src,
                                  m.qc_material)
           IN  IF sheet_name \in Errors \/ ~InList(sheet_name, sheetnames)
               THEN \* ValueError, or KeyError of workbook[sheet_name]
                    /\ pc' = "raised"
                    /\ calls' = Append(calls, determined)
                    /\ UNCHANGED <<cells, test_i, meas_i, row_control_1,
                                   row_control_2, warnings>>
               ELSE
               LET column_index == get_repro_test_column(cells, sheet_name,
                                                         test_name)
                   row_index == IF sheet_name = REPRO1 THEN row_control_1
                                ELSE row_control_2
                   update == Call("update_excel_cell", sheet_name, row_index,
                                  column_index, value_to_write(m.value),
                                  Stores(cells, sheetnames, sheet_name,
                                         row_index, column_index),
                                  test_name, m.src, m.qc_material)
               IN  /\ meas_i' = meas_i + 1
                   /\ UNCHANGED <<pc, test_i>>
                   /\ IF column_index = NoneInt
                      THEN /\ warnings' = Append(warnings,
                                  [what |-> "Test mnemonic not found in sheet",
                                   src |-> m.src])
                           /\ calls' = Append(calls, determined)
                           /\ UNCHANGED <<cells, row_control_1, row_control_2>>
                      ELSE IF sheet_name = REPRO1
                      THEN /\ cells' = update_repro_row(cells, sheetnames,
                                  sheet_name, row_control_1, column_index, m)
                           /\ row_control_1' = IF update.stored THEN row_control_1 + 1
                                              ELSE row_control_1
                           /\ calls' = calls \o <<determined, update>>
                           /\ UNCHANGED <<row_control_2, warnings>>
                      ELSE IF sheet_name = REPRO2
                      THEN /\ cells' = update_repro_row(cells, sheetnames,
                                  sheet_name, row_control_2, column_index, m)
                           /\ row_control_2' = IF update.stored THEN row_control_2 + 1
                                              ELSE row_control_2
                           /\ calls' = calls \o <<determined, update>>
                           /\ UNCHANGED <<row_control_1, warnings>>
                      ELSE /\ calls' = Append(calls, determined)
                           /\ UNCHANGED <<cells, row_control_1, row_control_2,
                                          warnings>>
    /\ UNCHANGED <<CONFIG, sheetnames, glims_df, is_reproducibility,
                   analyser_number, retry, row_i, fld_i, measurements,
                   cancelled, saved>>

\* mutant: any sheet other than 'REPRO controle 1' is written like
\* 'REPRO controle 2'
write_repro_measurement_third_sheet ==
    /\ pc = "write"
    /\ meas_i > 0
    /\ LET test_name == test_names[test_i]
           list == measurements[test_name]
       IN  IF meas_i > Len(list)
           THEN /\ test_i' = test_i + 1
                /\ meas_i' = 0
                /\ UNCHANGED <<pc, cells, row_control_1, row_control_2, calls,
                               warnings>>
           ELSE
           LET m == list[meas_i]
               sheet_name == routed_sheet(test_name, m)
               determined == Call("determine_repro_sheet", sheet_name, 0, 0,
                                  m.value, FALSE, test_name, m.src,
                                  m.qc_material)
           IN  IF sheet_name \in Errors \/ ~InList(sheet_name, sheetnames)
               THEN \* ValueError, or KeyError of workbook[sheet_name]
                    /\ pc' = "raised"
                    /\ calls' = Append(calls, determined)
                    /\ UNCHANGED <<cells, test_i, meas_i, row_control_1,
                                   row_control_2, warnings>>
               ELSE
               LET column_index == get_repro_test_column(cells, sheet_name,
                                                         test_name)
                   row_index == IF sheet_name = REPRO1 THEN row_control_1
                                ELSE row_control_2
                   update == Call("update_excel_cell", sheet_name, row_index,
                                  column_index, value_to_write(m.value),
                                  Stores(cells, sheetnames, sheet_name,
                                         row_index, column_index),
                                  test_name, m.src, m.qc_material)
               IN  /\ meas_i' = meas_i + 1
                   /\ UNCHANGED <<pc, test_i>>
                   /\ IF column_index = NoneInt
                      THEN /\ warnings' = Append(warnings,
                                  [what |-> "Test mnemonic not found in sheet",
                                   src |-> m.src])
                           /\ calls' = Append(calls, determined)
                           /\ UNCHANGED <<cells, row_control_1, row_control_2>>
                      ELSE IF sheet_name = REPRO1
                      THEN /\ cells' = update_repro_row(cells, sheetnames,
                                  sheet_name, row_control_1, column_index, m)
                           /\ row_control_1' = row_control_1 + 1
                           /\ calls' = calls \o <<determined, update>>
                           /\ UNCHANGED <<row_control_2, warnings>>
                      ELSE IF sheet_name # REPRO1
                      THEN /\ cells' = update_repro_row(cells, sheetnames,
                                  sheet_name, row_control_2, column_index, m)
                           /\ row_control_2' = row_control_2 + 1
                           /\ calls' = calls \o <<determined, update>>
                           /\ UNCHANGED <<row_control_1, warnings>>
                      ELSE /\ calls' = Append(calls, determined)
                           /\ UNCHANGED <<cells, row_control_1, row_control_2,
                                          warnings>>
    /\ UNCHANGED <<CONFIG, sheetnames, glims_df, is_reproducibility,
                   analyser_number, retry, row_i, fld_i, measurements,
                   cancelled, saved>>

\* one iteration of the loop over the sorted measurements of a test
write_repro_measurement ==
    /\ pc = "write"
    /\ meas_i > 0
    /\ LET test_name == test_names[test_i]
           list == measurements[test_name]
       IN  IF meas_i > Len(list)
           THEN /\ test_i' = test_i + 1
                /\ meas_i' = 0
                /\ UNCHANGED <<pc, cells, row_control_1, row_control_2, calls,
                               warnings>>
           ELSE
           LET m == list[meas_i]
               sheet_name == routed_sheet(test_name, m)
               determined == Call("determine_repro_sheet", sheet_name, 0, 0,
                                  m.value, FALSE, test_name, m.src,
                                  m.qc_material)
           IN  IF sheet_name \in Errors \/ ~InList(sheet_name, sheetnames)
               THEN \* ValueError, or KeyError of workbook[sheet_name]
                    /\ pc' = "raised"
                    /\ calls' = Append(calls, determined)
                    /\ UNCHANGED <<cells, test_i, meas_i, row_control_1,
                                   row_control_2, warnings>>
               ELSE
               LET column_index == get_repro_test_column(cells, sheet_name,
                                                         test_name)
                   row_index == IF sheet_name = REPRO1 THEN row_control_1
                                ELSE row_control_2
                   update == Call("update_excel_cell", sheet_name, row_index,
                                  column_index, value_to_write(m.value),
                                  Stores(cells, sheetnames, sheet_name,
                                         row_index, column_index),
                                  test_name, m.src, m.qc_material)
               IN  /\ meas_i' = meas_i + 1
                   /\ UNCHANGED <<pc, test_i>>
                   /\ IF column_index = NoneInt
                      THEN /\ warnings' = Append(warnings,
                                  [what |-> "Test mnemonic not found in sheet",
                                   src |-> m.src])
                           /\ calls' = Append(calls, determined)
                           /\ UNCHANGED <<cells, row_control_1, row_control_2>>
                      ELSE IF sheet_name = REPRO1
                      THEN /\ cells' = update_repro_row(cells, sheetnames,
                                  sheet_name, row_control_1, column_index, m)
                           /\ row_control_1' = row_control_1 + 1
                           /\ calls' = calls \o <<determined, update>>
                           /\ UNCHANGED <<row_control_2, warnings>>
                      ELSE IF sheet_name = REPRO2
                      THEN /\ cells' = update_repro_row(cells, sheetnames,
                                  sheet_name, row_control_2, column_index, m)
                           /\ row_control_2' = row_control_2 + 1
                           /\ calls' = calls \o <<determined, update>>
                           /\ UNCHANGED <<row_control_1, warnings>>
                      ELSE /\ calls' = Append(calls, determined)
                           /\ UNCHANGED <<cells, row_control_1, row_control_2,
                                          warnings>>
    /\ UNCHANGED <<CONFIG, sheetnames, glims_df, is_reproducibility,
                   analyser_number, retry, row_i, fld_i, measurements,
                   cancelled, saved>>

-----------------------------------------------------------------------------
(* Inputs: configuration, template workbook and CSV contents *)

MaxRows == 2

SeqsUpTo(S, n) == UNION {[1..k -> S] : k \in 0..n}

v_testrun1 == <<"v","_","t","e","s","t","r","u","n","1">>
v_testrun2 == <<"v","_","t","e","s","t","r","u","n","2">>
v_testrun9 == <<"v","_","t","e","s","t","r","u","n","9">>
k_a == <<"k","_","a">>
K_A == <<"K","_","A">>
k_b == <<"k","_","b">>
k_zz == <<"k","_","z","z">>
QC_LOW == VLK \o <<"P","C","_","1">>
QC_HIGH == VLK \o <<"P","C","_","2">>
QC_LOW_OLD == VLK \o <<"P","N","_","1">>
QC_HIGH_OLD == VLK \o <<"P","N","_","2">>
QC_SKIPPED == VLK \o <<"P","C","_","H","I","V","_","1">>
QC_UNKNOWN == VLK \o <<"X">>
QC_BIL == VLK_Bil \o <<"_","1">>
ANALYSER_OTHER == VLK \o <<"C","8","0","0","0">>
V_1_5 == <<"1",".","5">>
V_2_5 == <<"2",".","5">>
V_9_9 == <<"9",",","9">>
V_N_A == <<"n",".","a",".">>
V_LT_0_5 == <<"<","0",".","5">>

Tiers(legacy_low, legacy_high, pro_low, pro_high) ==
    [offset_map |-> (v_testrun1 :> 0) @@ (v_testrun2 :> 3),
     test_mnemonics |-> [c_module |-> <<K_A, k_b>>,
                         e_module |-> <<m_ahiv_eclia_ser, m_hivag_eclia_ser>>],
     qc_material |-> [low |-> legacy_low, high |-> legacy_high],
     qc_material_pro |-> [low |-> pro_low, high |-> pro_high],
     skip_hiv |-> {QC_SKIPPED}]

BaseConfig == Tiers(<<QC_LOW_OLD>>, <<QC_HIGH_OLD>>, <<QC_LOW>>, <<QC_HIGH>>)

\* every content of the four tier lists over the two HIV materials
HivLists == {<<>>, <<VLK_PC_HIV_3>>, <<VLK_PC_HIV_5>>,
             <<VLK_PC_HIV_3, VLK_PC_HIV_5>>}
TierConfigs ==
    {Tiers(low, high, <<>>, <<>>) : low \in HivLists, high \in HivLists} \cup
    {Tiers(<<>>, <<>>, low, high) : low \in HivLists, high \in HivLists} \cup
    {Tiers(low, <<>>, <<>>, high) : low \in HivLists, high \in HivLists} \cup
    {Tiers(<<>>, high, low, <<>>) : low \in HivLists, high \in HivLists}

CHEM == "C-module"
IMMUNO == "E-module"
Sheets == <<CHEM, IMMUNO, REPRO1, REPRO2, REPRO3>>

ReproHeader(sheet) ==
    (<<sheet, REPRO_HEADER_ROW, 1>> :> <<"D","a","t","u","m">>) @@
    (<<sheet, REPRO_HEADER_ROW, 2>> :> K_A) @@
    (<<sheet, REPRO_HEADER_ROW, 3>> :> m_ahiv_eclia_ser) @@
    (<<sheet, REPRO_HEADER_ROW, 4>> :> m_hivag_eclia_ser)

\* the validation template: test names in column B of the module sheets,
\* mnemonics in the header row of the reproducibility sheets
Template ==
    (<<CHEM, 1, 2>> :> <<"T","e","s","t">>) @@
    (<<CHEM, 2, 2>> :> <<"K","_","a"," ">>) @@
    (<<CHEM, 3, 2>> :> k_b) @@
    (<<IMMUNO, 1, 2>> :> <<"T","e","s","t">>) @@
    (<<IMMUNO, 3, 2>> :> m_ahiv_eclia_ser) @@
    ReproHeader(REPRO1) @@ ReproHeader(REPRO2) @@ ReproHeader(REPRO3)

\* the template with results of an earlier session in it
TemplateFilled ==
    (<<REPRO1, REPRO_FIRST_DATA_ROW + 1, 2>> :> V_9_9) @@
    (<<CHEM, 2, C_MODULE_BASE_OFFSET_8000>> :> V_9_9) @@ Template

\* the template without the k_a column on 'REPRO controle 2'
TemplateGap ==
    [k \in DOMAIN Template \ {<<REPRO2, REPRO_HEADER_ROW, 2>>} |-> Template[k]]

Date(a, b) == [a |-> a, b |-> b]
D_2_1 == Date(2, 1)
D_1_2 == Date(1, 2)
D_5_13 == Date(5, 13)
D_13_13 == Date(13, 13)

ReproRows(dates, qcs, analysers, values) ==
    {<<d, q, a>> \o v : d \in dates, q \in qcs, a \in analysers, v \in values}

ReproColumns(tests) == <<<<"d">>, <<"q">>, <<"a">>>> \o tests

Family(configs, names, templates, columns, rows) ==
    [configs |-> configs, names |-> names, templates |-> templates,
     columns |-> columns, rows |-> rows]

\* chronology: dates in and out of order, both tiers, one test
FamChrono ==
    Family({BaseConfig}, {Sheets}, {Template, TemplateFilled},
           ReproColumns(<<k_a>>),
           ReproRows({D_2_1, D_1_2, D_5_13}, {QC_LOW, QC_HIGH_OLD},
                     {VLK_PRO_3_C503}, {<<V_1_5>>}))

\* the row filters: date, exclusion and analyser
FamFilter ==
    Family({BaseConfig}, {Sheets}, {Template},
           ReproColumns(<<k_a, m_ahiv_eclia_ser>>),
           ReproRows({D_2_1, D_13_13}, {QC_LOW, QC_SKIPPED},
                     {VLK_PRO_3_C503, VLK_PRO_4_C703}, {<<V_1_5, V_2_5>>}))

\* placeholder and absent values
FamValues ==
    Family({BaseConfig}, {Sheets}, {Template},
           ReproColumns(<<k_a, m_ahiv_eclia_ser>>),
           ReproRows({D_2_1, D_13_13}, {QC_LOW}, {VLK_PRO_3_C503},
                     {<<V_1_5, Dash>>, <<Dash, V_2_5>>, <<NaN, V_2_5>>,
                      <<Dash, Dash>>, <<V_N_A, V_LT_0_5>>}))

\* the HIV materials under the tier tables
FamHiv ==
    Family(TierConfigs, {Sheets}, {Template},
           ReproColumns(<<m_ahiv_eclia_ser, m_hivag_eclia_ser>>),
           ReproRows({D_2_1}, {VLK_PC_HIV_3, VLK_PC_HIV_5},
                     {VLK_PRO_3_C503}, {<<V_1_5, V_2_5>>}))

ErrorRows ==
    ReproRows({D_2_1}, {QC_LOW, QC_HIGH, QC_UNKNOWN, VLK_Hemolyse, QC_BIL},
              {VLK_PRO_3_C703, ANALYSER_OTHER}, {<<V_1_5>>})

\* resolution failures: unknown material or analyser, missing column
FamErrors ==
    Family({BaseConfig}, {Sheets}, {Template, TemplateGap},
           ReproColumns(<<k_a>>), ErrorRows)

\* resolution failures: a workbook without 'REPRO controle 2'
FamNoSheet ==
    Family({BaseConfig}, {<<CHEM, IMMUNO, REPRO1, REPRO3>>}, {Template},
           ReproColumns(<<k_a>>), ErrorRows)

ReproFamilies == {FamChrono, FamFilter, FamValues, FamHiv, FamErrors, FamNoSheet}

InitInputs(families) ==
    \E fam \in families :
        /\ CONFIG \in fam.configs
        /\ sheetnames \in fam.names
        /\ cells \in fam.templates
        /\ \E rows \in SeqsUpTo(fam.rows, MaxRows) :
               glims_df = [columns |-> fam.columns, rows |-> rows]

InitRun ==
    /\ analyser_number = NoneInt
    /\ retry = 0
    /\ row_i = 1
    /\ fld_i = 0
    /\ test_i = 1
    /\ meas_i = 0
    /\ row_control_1 = REPRO_FIRST_DATA_ROW
    /\ row_control_2 = REPRO_FIRST_DATA_ROW
    /\ calls = <<>>
    /\ warnings = <<>>
    /\ cancelled = {}
    /\ saved = 0

\* process_reproducibility entered with a loaded CSV and workbook
InitRepro ==
    /\ InitInputs(ReproFamilies)
    /\ InitRun
    /\ is_reproducibility = TRUE
    /\ measurements = [t \in SeqToSet(repro_test_mnemonics) |-> <<>>]
    /\ pc = "prompt_analyser"

NextRepro ==
    \/ prompt_for_analyser_number
    \/ build_repro_measurements
    \/ write_repro_begin_test
    \/ write_repro_measurement

SpecRepro == InitRepro /\ [][NextRepro]_vars

-----------------------------------------------------------------------------
(* process_skml *)

\* not str(glims_df.columns[2]).lower().startswith("k_")
has_order_column == ~StartsWith(Lower(glims_df.columns[3]), KPrefix)

mnemonic_start_col == IF has_order_column THEN 3 ELSE 2

\* col.lower() for col in glims_df.columns[mnemonic_start_col:]
skml_test_mnemonics ==
    LowerAll(SubSeq(glims_df.columns, mnemonic_start_col + 1,
                    Len(glims_df.columns)))

\* str(row[1]).lower()
testrun_id_of(row) == Lower(row[2])

\* the head of the row loop: an unknown testrun skips the row
process_skml_row ==
    /\ pc = "skml"
    /\ fld_i = 0
    /\ IF row_i > Len(glims_df.rows)
       THEN /\ pc' = "processed"
            /\ UNCHANGED <<row_i, fld_i, warnings>>
       ELSE IF testrun_id_of(glims_df.rows[row_i]) \notin DOMAIN OFFSET_MAP
       THEN /\ warnings' = Append(warnings, [what |-> "Unknown testrun ID",
                                             src |-> row_i])
            /\ row_i' = row_i + 1
            /\ UNCHANGED <<pc, fld_i>>
       ELSE /\ fld_i' = 1
            /\ UNCHANGED <<pc, row_i, warnings>>
    /\ UNCHANGED <<CONFIG, sheetnames, cells, glims_df, is_reproducibility,
                   analyser_number, retry, measurements, test_i, meas_i,
                   row_control_1, row_control_2, calls, cancelled, saved>>

\* mutant: the testrun offset is left out
result_column_index_base_only(base_column_index, testrun_id) ==
    base_column_index

\* the column the written value goes to
result_column_index(base_column_index, testrun_id) ==
    base_column_index + OFFSET_MAP[testrun_id]

\* mutant: a field whose placement fails ends the loop over the fields of
\* its row
process_skml_field_break ==
    /\ pc = "skml"
    /\ fld_i > 0
    /\ IF fld_i > Len(skml_test_mnemonics)
       THEN /\ row_i' = row_i + 1
            /\ fld_i' = 0
            /\ UNCHANGED <<cells, calls, warnings>>
       ELSE
       LET row == glims_df.rows[row_i]
           patient_id == row[1]
           testrun_id == testrun_id_of(row)
           test_mnemonic == skml_test_mnemonics[fld_i]
           mnemonic_column_index ==
               (IndexOf(test_mnemonic, skml_test_mnemonics) - 1)
                   + mnemonic_start_col
           test_result_value == row[mnemonic_column_index + 1]
           base == get_sheet_and_column_base(test_mnemonic, patient_id,
                                             TEST_MNEMONICS)
           worksheet == sheetnames[base[1] + 1]
           excel_row_index == find_test_row_in_worksheet(cells, worksheet,
                                                         test_mnemonic)
           column == result_column_index(base[2], testrun_id)
           value == value_to_write(test_result_value)
       IN  /\ fld_i' = IF /\ test_result_value # Dash
                          /\ test_result_value # None
                          /\ (base[1] = NoneInt \/ excel_row_index = NoneInt)
                       THEN Len(skml_test_mnemonics) + 1
                       ELSE fld_i + 1
           /\ row_i' = row_i
           /\ IF test_result_value = Dash \/ test_result_value = None
              THEN UNCHANGED <<cells, calls, warnings>>
              ELSE IF base[1] = NoneInt \/ base[2] = NoneInt
              THEN /\ warnings' = Append(warnings,
                                         [what |-> "Unknown mnemonic",
                                          src |-> row_i])
                   /\ UNCHANGED <<cells, calls>>
              ELSE IF excel_row_index = NoneInt
              THEN /\ warnings' = Append(warnings,
                                         [what |-> "Row/column not found",
                                          src |-> row_i])
                   /\ UNCHANGED <<cells, calls>>
              ELSE /\ cells' = update_excel_cell(cells, sheetnames, worksheet,
                                                 excel_row_index, column, value)
                   /\ calls' = Append(calls,
                          Call("update_excel_cell", worksheet, excel_row_index,
                               column, value,
                               Stores(cells, sheetnames, worksheet,
                                      excel_row_index, column),
                               test_mnemonic, row_i, patient_id))
                   /\ UNCHANGED warnings
    /\ UNCHANGED <<CONFIG, sheetnames, glims_df, pc, is_reproducibility,
                   analyser_number, retry, measurements, test_i, meas_i,
                   row_control_1, row_control_2, cancelled, saved>>

\* one iteration of the loop over test_mnemonics for the current row
process_skml_field ==
    /\ pc = "skml"
    /\ fld_i > 0
    /\ IF fld_i > Len(skml_test_mnemonics)
       THEN /\ row_i' = row_i + 1
            /\ fld_i' = 0
            /\ UNCHANGED <<cells, calls, warnings>>
       ELSE
       LET row == glims_df.rows[row_i]
           patient_id == row[1]
           testrun_id == testrun_id_of(row)
           test_mnemonic == skml_test_mnemonics[fld_i]
           mnemonic_column_index ==
               (IndexOf(test_mnemonic, skml_test_mnemonics) - 1)
                   + mnemonic_start_col
           test_result_value == row[mnemonic_column_index + 1]
           base == get_sheet_and_column_base(test_mnemonic, patient_id,
                                             TEST_MNEMONICS)
           worksheet == sheetnames[base[1] + 1]
           excel_row_index == find_test_row_in_worksheet(cells, worksheet,
                                                         test_mnemonic)
           column == result_column_index(base[2], testrun_id)
           value == value_to_write(test_result_value)
       IN  /\ fld_i' = fld_i + 1
           /\ row_i' = row_i
           /\ IF test_result_value = Dash \/ test_result_value = None
              THEN UNCHANGED <<cells, calls, warnings>>
              ELSE IF base[1] = NoneInt \/ base[2] = NoneInt
              THEN /\ warnings' = Append(warnings,
                                         [what |-> "Unknown mnemonic",
                                          src |-> row_i])
                   /\ UNCHANGED <<cells, calls>>
              ELSE IF excel_row_index = NoneInt
              THEN /\ warnings' = Append(warnings,
                                         [what |-> "Row/column not found",
                                          src |-> row_i])
                   /\ UNCHANGED <<cells, calls>>
              ELSE /\ cells' = update_excel_cell(cells, sheetnames, worksheet,
                                                 excel_row_index, column, value)
                   /\ calls' = Append(calls,
                          Call("update_excel_cell", worksheet, excel_row_index,
                               column, value,
                               Stores(cells, sheetnames, worksheet,
                                      excel_row_index, column),
                               test_mnemonic, row_i, patient_id))
                   /\ UNCHANGED warnings
    /\ UNCHANGED <<CONFIG, sheetnames, glims_df, pc, is_reproducibility,
                   analyser_number, retry, measurements, test_i, meas_i,
                   row_control_1, row_control_2, cancelled, saved>>

PATIENT_8000 == <<"8","0","0","0","-","1">>
PATIENT_PRO == <<"P","R","O","-","1">>
V_TESTRUN2 == <<"V","_","T","E","S","T","R","U","N","2">>
ORDER_ID == <<"o","r","d","e","r"," ","i","d">>

SkmlColumns(tests) == <<<<"p">>, <<"t">>>> \o tests

SkmlRows(patients, testruns, values) ==
    {<<p, t>> \o v : p \in patients, t \in testruns, v \in values}

\* placement: both instrument families, known and unknown testruns
FamPlacement ==
    Family({BaseConfig}, {Sheets}, {Template, TemplateFilled},
           SkmlColumns(<<k_a, m_ahiv_eclia_ser>>),
           SkmlRows({PATIENT_8000, PATIENT_PRO},
                    {v_testrun1, V_TESTRUN2, v_testrun9},
                    {<<V_1_5, V_2_5>>, <<V_1_5, Dash>>}))

\* fields that fail: unknown mnemonic, no row in the worksheet, no value
FamSkips ==
    Family({BaseConfig}, {Sheets}, {Template},
           SkmlColumns(<<k_zz, m_hivag_eclia_ser, k_b>>),
           SkmlRows({PATIENT_8000}, {v_testrun1, v_testrun2},
                    {<<V_1_5, V_1_5, V_2_5>>, <<Dash, V_1_5, V_2_5>>,
                     <<NaN, Dash, V_2_5>>}))

\* headers with an 'Order id' column, and with a first mnemonic that does
\* not begin with k_
FamOrderId ==
    Family({BaseConfig}, {Sheets}, {Template},
           SkmlColumns(<<ORDER_ID, k_a, k_b>>),
           SkmlRows({PATIENT_8000}, {v_testrun1, v_testrun2},
                    {<<<<"7">>, V_1_5, V_2_5>>, <<<<"8">>, Dash, V_2_5>>}))

FamNoOrderId ==
    Family({BaseConfig}, {Sheets}, {Template},
           SkmlColumns(<<m_ahiv_eclia_ser, k_a>>),
           SkmlRows({PATIENT_8000}, {v_testrun1, v_testrun2},
                    {<<V_1_5, V_2_5>>, <<Dash, V_2_5>>}))

SkmlFamilies == {FamPlacement, FamSkips, FamOrderId, FamNoOrderId}

\* process_skml entered with a loaded CSV and workbook
InitSkml ==
    /\ InitInputs(SkmlFamilies)
    /\ InitRun
    /\ is_reproducibility = FALSE
    /\ measurements = <<>>
    /\ pc = "skml"

NextSkml ==
    \/ process_skml_row
    \/ process_skml_field

SpecSkml == InitSkml /\ [][NextSkml]_vars

-----------------------------------------------------------------------------
(* main *)

NoFrame == [columns |-> <<>>, rows |-> <<>>]

\* the CSV and template files the user can pick for each workflow
MainFamilies(reproducibility) ==
    IF reproducibility THEN {FamChrono, FamErrors} ELSE {FamPlacement}

\* messagebox.askyesno("Reproducibility", ...)
ask_reproducibility ==
    /\ pc = "ask_reproducibility"
    /\ is_reproducibility' \in BOOLEAN
    /\ pc' = "choose_csv"
    /\ UNCHANGED <<CONFIG, sheetnames, cells, glims_df, analyser_number, retry,
                   row_i, fld_i, measurements, test_i, meas_i, row_control_1,
                   row_control_2, calls, warnings, cancelled, saved>>

\* mutant: a cancelled CSV picker does not end the run
choose_csv_file_no_exit ==
    /\ pc = "choose_csv"
    /\ \E picked \in BOOLEAN :
           /\ pc' = "choose_template"
           /\ cancelled' = IF picked THEN cancelled
                           ELSE cancelled \cup {"csv file"}
    /\ UNCHANGED <<CONFIG, sheetnames, cells, glims_df, is_reproducibility,
                   analyser_number, retry, row_i, fld_i, measurements, test_i,
                   meas_i, row_control_1, row_control_2, calls, warnings, saved>>

\* choose_file(...): a path, or the empty string when cancelled;
\* main: if not path: sys.exit(0)
choose_csv_file ==
    /\ pc = "choose_csv"
    /\ \E picked \in BOOLEAN :
           IF picked THEN pc' = "choose_template" /\ UNCHANGED cancelled
           ELSE /\ pc' = "exit"
                /\ cancelled' = cancelled \cup {"csv file"}
    /\ UNCHANGED <<CONFIG, sheetnames, cells, glims_df, is_reproducibility,
                   analyser_number, retry, row_i, fld_i, measurements, test_i,
                   meas_i, row_control_1, row_control_2, calls, warnings, saved>>

choose_template_file ==
    /\ pc = "choose_template"
    /\ \E picked \in BOOLEAN :
           IF picked THEN pc' = "separator" /\ UNCHANGED cancelled
           ELSE /\ pc' = "exit"
                /\ cancelled' = cancelled \cup {"template file"}
    /\ UNCHANGED <<CONFIG, sheetnames, cells, glims_df, is_reproducibility,
                   analyser_number, retry, row_i, fld_i, measurements, test_i,
                   meas_i, row_control_1, row_control_2, calls, warnings, saved>>

\* prompt_for_csv_separator: the input, or ';' for None and ''
csv_separator(separator_input) ==
    IF separator_input \notin {None, EmptyStr} THEN separator_input
    ELSE <<";">>

SeparatorAnswers == {None, EmptyStr, <<";">>, <<",">>}

prompt_for_csv_separator ==
    /\ pc = "separator"
    /\ \E separator_input \in SeparatorAnswers :
           /\ cancelled' = IF separator_input = None
                           THEN cancelled \cup {"separator"} ELSE cancelled
           /\ pc' = "load"
    /\ UNCHANGED <<CONFIG, sheetnames, cells, glims_df, is_reproducibility,
                   analyser_number, retry, row_i, fld_i, measurements, test_i,
                   meas_i, row_control_1, row_control_2, calls, warnings, saved>>

\* load_glims_csv and load_excel_workbook, which raise when a file cannot
\* be read; then the call of process_reproducibility or process_skml
load_files ==
    /\ pc = "load"
    /\ \/ /\ pc' = "raised"
          /\ UNCHANGED <<sheetnames, cells, glims_df, measurements>>
       \/ /\ \E fam \in MainFamilies(is_reproducibility) :
                 /\ sheetnames' \in fam.names
                 /\ cells' \in fam.templates
                 /\ \E rows \in SeqsUpTo(fam.rows, MaxRows) :
                        glims_df' = [columns |-> fam.columns, rows |-> rows]
          /\ measurements' =
                 IF is_reproducibility
                 THEN [t \in SeqToSet(LowerAll(SubSeq(glims_df'.columns, 4,
                                      Len(glims_df'.columns)))) |-> <<>>]
                 ELSE measurements
          /\ pc' = IF is_reproducibility THEN "prompt_analyser" ELSE "skml"
    /\ UNCHANGED <<CONFIG, is_reproducibility, analyser_number, retry, row_i,
                   fld_i, test_i, meas_i, row_control_1, row_control_2, calls,
                   warnings, cancelled, saved>>

\* mutant: the workbook is saved whether or not a path was chosen
save_results_without_path ==
    /\ pc = "processed"
    /\ \E picked \in BOOLEAN :
           /\ saved' = saved + 1
           /\ cancelled' = IF picked THEN cancelled
                           ELSE cancelled \cup {"save path"}
    /\ pc' = "done"
    /\ UNCHANGED <<CONFIG, sheetnames, cells, glims_df, is_reproducibility,
                   analyser_number, retry, row_i, fld_i, measurements, test_i,
                   meas_i, row_control_1, row_control_2, calls, warnings>>

\* filedialog.asksaveasfilename and ExcelCsvHandler.save_excel_workbook
save_results ==
    /\ pc = "processed"
    /\ \E picked \in BOOLEAN :
           IF picked THEN saved' = saved + 1 /\ UNCHANGED cancelled
           ELSE /\ cancelled' = cancelled \cup {"save path"}
                /\ UNCHANGED saved
    /\ pc' = "done"
    /\ UNCHANGED <<CONFIG, sheetnames, cells, glims_df, is_reproducibility,
                   analyser_number, retry, row_i, fld_i, measurements, test_i,
                   meas_i, row_control_1, row_control_2, calls, warnings>>

Init ==
    /\ InitRun
    /\ CONFIG = BaseConfig
    /\ sheetnames = <<>>
    /\ cells = <<>>
    /\ glims_df = NoFrame
    /\ measurements = <<>>
    /\ is_reproducibility = FALSE
    /\ pc = "ask_reproducibility"

Next ==
    \/ ask_reproducibility
    \/ choose_csv_file
    \/ choose_template_file
    \/ prompt_for_csv_separator
    \/ load_files
    \/ prompt_for_analyser_number
    \/ build_repro_measurements
    \/ write_repro_begin_test
    \/ write_repro_measurement
    \/ process_skml_row
    \/ process_skml_field
    \/ save_results

Spec == Init /\ [][Next]_vars

-----------------------------------------------------------------------------
(* update_excel_cell called with any arguments *)

MaxCalls == 3

CellSheets == {REPRO1, "Missing"}
CellRows == {REPRO_FIRST_DATA_ROW, REPRO_FIRST_DATA_ROW + 1}
CellValues == {None, EmptyStr, NaN, V_1_5, V_9_9}

call_update_excel_cell ==
    /\ pc = "cell"
    /\ Len(calls) < MaxCalls
    /\ \E sheet \in CellSheets, row \in CellRows, value \in CellValues :
           /\ cells' = update_excel_cell(cells, sheetnames, sheet, row, 2, value)
           /\ calls' = Append(calls,
                  Call("update_excel_cell", sheet, row, 2, value,
                       Stores(cells, sheetnames, sheet, row, 2),
                       None, 0, None))
    /\ UNCHANGED <<CONFIG, sheetnames, glims_df, pc, is_reproducibility,
                   analyser_number, retry, row_i, fld_i, measurements, test_i,
                   meas_i, row_control_1, row_control_2, warnings, cancelled,
                   saved>>

InitCell ==
    /\ InitRun
    /\ CONFIG = BaseConfig
    /\ sheetnames = Sheets
    /\ cells \in {Template, TemplateFilled}
    /\ glims_df = NoFrame
    /\ measurements = <<>>
    /\ is_reproducibility = FALSE
    /\ pc = "cell"

NextCell == call_update_excel_cell

SpecCell == InitCell /\ [][NextCell]_vars

-----------------------------------------------------------------------------
(* The placement resolvers applied to any arguments *)

M_AHIV_ECLIA_SER == <<"M","_","A","H","I","V","_","E","C","L","I","A","_","S","E","R">>
vlk_pc_hiv_3 == Lower(VLK_PC_HIV_3)
K_a == <<"K","_","a">>
K_B == <<"K","_","B">>

TestNames == {m_ahiv_eclia_ser, m_hivag_eclia_ser, M_AHIV_ECLIA_SER, k_a, K_A,
              K_a, k_b, K_B, k_zz, EmptyStr}
QcMaterials == {VLK_PC_HIV_3, VLK_PC_HIV_5, vlk_pc_hiv_3, QC_SKIPPED, QC_LOW,
                VLK_Hemolyse}
ReproSheets == {REPRO1, REPRO2, REPRO3}
PatientIds == {PATIENT_8000, PATIENT_PRO, <<"1","8","0","0","0">>,
               <<"8","0","0">>, <<"8","0","-","0","0">>, EmptyStr}

Modules(c_module, e_module) ==
    [BaseConfig EXCEPT !.test_mnemonics =
        [c_module |-> c_module, e_module |-> e_module]]

\* module lists: mixed case, one mnemonic on both lists, empty lists
ResolveConfigs ==
    {BaseConfig,
     Modules(<<K_A, k_b>>, <<k_a, M_AHIV_ECLIA_SER>>),
     Modules(<<>>, <<K_B>>),
     Modules(<<>>, <<>>)}

call_apply_hiv_sheet_override ==
    /\ pc = "resolve"
    /\ \E test_name \in TestNames, qc_material \in QcMaterials,
          default_sheet \in ReproSheets :
           calls' = <<Call("apply_hiv_sheet_override",
                           apply_hiv_sheet_override(test_name, qc_material,
                                                    default_sheet),
                           0, 0, default_sheet, FALSE, test_name, 0,
                           qc_material)>>
    /\ pc' = "resolved"
    /\ UNCHANGED <<CONFIG, sheetnames, cells, glims_df, is_reproducibility,
                   analyser_number, retry, row_i, fld_i, measurements, test_i,
                   meas_i, row_control_1, row_control_2, warnings, cancelled,
                   saved>>

call_get_sheet_and_column_base ==
    /\ pc = "resolve"
    /\ \E mnemonic \in TestNames, patient_id \in PatientIds :
           LET base == get_sheet_and_column_base(mnemonic, patient_id,
                                                 TEST_MNEMONICS)
           IN  calls' = <<Call("get_sheet_and_column_base", base[1], base[1],
                               base[2], patient_id, FALSE, mnemonic, 0,
                               patient_id)>>
    /\ pc' = "resolved"
    /\ UNCHANGED <<CONFIG, sheetnames, cells, glims_df, is_reproducibility,
                   analyser_number, retry, row_i, fld_i, measurements, test_i,
                   meas_i, row_control_1, row_control_2, warnings, cancelled,
                   saved>>

QC_VRIJ == <<"X","_">> \o VLK_Vrij
vlk_hemolyse == Lower(VLK_Hemolyse)

\* tier lists that hold an interference material, a marker material, or
\* the same material as low and as high
DetermineLists == {<<>>, <<QC_LOW, VLK_Hemolyse>>, <<QC_BIL, QC_HIGH>>}
DetermineConfigs ==
    {Tiers(legacy_low, legacy_high, pro_low, pro_high) :
         legacy_low \in DetermineLists, legacy_high \in DetermineLists,
         pro_low \in DetermineLists, pro_high \in DetermineLists}
DetermineMaterials == {VLK_Hemolyse, VLK_Ict_V, VLK_Lip_V, vlk_hemolyse, QC_LOW,
                       QC_HIGH, QC_BIL, QC_VRIJ, QC_UNKNOWN, VLK_PC_HIV_3}
Analysers == {VLK_PRO_4_C503, VLK_PRO_3_C503, VLK_PRO_4_C703, VLK_PRO_3_C703,
              VLK_C500PRO_01, ANALYSER_OTHER}

\* the call is recorded with the analyser as value and pro_validation as
\* stored
call_determine_repro_sheet ==
    /\ pc = "resolve"
    /\ \E pro_validation \in BOOLEAN, qc_material \in DetermineMaterials,
          analyser \in Analysers :
           calls' = <<Call("determine_repro_sheet",
                           determine_repro_sheet(pro_validation, qc_material,
                                                 analyser),
                           0, 0, analyser, pro_validation, EmptyStr, 0,
                           qc_material)>>
    /\ pc' = "resolved"
    /\ UNCHANGED <<CONFIG, sheetnames, cells, glims_df, is_reproducibility,
                   analyser_number, retry, row_i, fld_i, measurements, test_i,
                   meas_i, row_control_1, row_control_2, warnings, cancelled,
                   saved>>

InitResolve ==
    /\ InitRun
    /\ CONFIG \in ResolveConfigs \cup DetermineConfigs
    /\ sheetnames = Sheets
    /\ cells = Template
    /\ glims_df = NoFrame
    /\ measurements = <<>>
    /\ is_reproducibility = FALSE
    /\ pc = "resolve"

NextResolve ==
    \/ call_apply_hiv_sheet_override
    \/ call_get_sheet_and_column_base
    \/ call_determine_repro_sheet

SpecResolve == InitResolve /\ [][NextResolve]_vars

-----------------------------------------------------------------------------
(* Properties of the reproducibility workflow *)

Updates == {i \in DOMAIN calls : calls[i].fn = "update_excel_cell"}
Written == {i \in Updates : calls[i].stored}
Routings == {i \in DOMAIN calls : calls[i].fn = "determine_repro_sheet"}

\* the timestamp of the CSV row a call was made for
TimestampOf(i) == parse(glims_df.rows[calls[i].src][1])

\* the claim's placeholder: the literal "-" or an absent value
NonPlaceholder(value) == IsStr(value) /\ value # Dash

\* C2: the measurements written for one mnemonic on one worksheet are in
\* rows that are non-decreasing in timestamp, and of two with equal
\* timestamps the one from the earlier input row is in the lower row.
C2_ChronologicalRows ==
    is_reproducibility =>
    \A i \in Written : \A j \in Written :
        (/\ calls[i].test = calls[j].test
         /\ calls[i].sheet = calls[j].sheet
         /\ calls[i].row < calls[j].row)
        => /\ TimestampOf(i) <= TimestampOf(j)
           /\ TimestampOf(i) = TimestampOf(j) => calls[i].src < calls[j].src

\* two measurements written in the reverse of their input order
C2_Witness_Reordered ==
    /\ is_reproducibility
    /\ pc = "processed"
    /\ \E i \in Written : \E j \in Written :
           /\ calls[i].test = calls[j].test
           /\ calls[i].sheet = calls[j].sheet
           /\ calls[i].row < calls[j].row
           /\ calls[i].src > calls[j].src
           /\ TimestampOf(i) < TimestampOf(j)

InSomeTierList(qc_material) ==
    \/ InList(qc_material, QC_MATERIAL.low)
    \/ InList(qc_material, QC_MATERIAL.high)
    \/ InList(qc_material, QC_MATERIAL_PRO.low)
    \/ InList(qc_material, QC_MATERIAL_PRO.high)

HivRoutings(qc_material) ==
    {i \in Routings : /\ calls[i].test = m_ahiv_eclia_ser
                      /\ calls[i].qc = qc_material}

\* C5 as claimed: under every content of the tier tables a measurement of
\* m_ahiv_eclia_ser is routed to 'REPRO controle 1' for VLK_PC_HIV_3 and to
\* 'REPRO controle 2' for VLK_PC_HIV_5.
C5_Claimed_RegardlessOfTiers ==
    /\ \A i \in HivRoutings(VLK_PC_HIV_3) : calls[i].sheet = REPRO1
    /\ \A i \in HivRoutings(VLK_PC_HIV_5) : calls[i].sheet = REPRO2

\* C5 amended: when the QC material is in at least one low or high list of
\* either table (the opposite tier included) the measurement is routed to
\* 'REPRO controle 1' (VLK_PC_HIV_3) or 'REPRO controle 2' (VLK_PC_HIV_5);
\* when it is in no list, determine_repro_sheet raises the unknown QC
\* material error before the override is applied and the run ends.
C5_HivRoutedWhenTiered ==
    /\ \A i \in HivRoutings(VLK_PC_HIV_3) :
           calls[i].sheet = IF InSomeTierList(VLK_PC_HIV_3) THEN REPRO1
                            ELSE ErrUnknownQc
    /\ \A i \in HivRoutings(VLK_PC_HIV_5) :
           calls[i].sheet = IF InSomeTierList(VLK_PC_HIV_5) THEN REPRO2
                            ELSE ErrUnknownQc
    /\ (\E i \in Routings : calls[i].sheet \in Errors) => pc = "raised"

\* VLK_PC_HIV_3, listed as high only, is routed to 'REPRO controle 1' and
\* VLK_PC_HIV_5, listed as low only, to 'REPRO controle 2'
C5_Witness_OppositeTier ==
    /\ ~InList(VLK_PC_HIV_3, QC_MATERIAL.low)
    /\ ~InList(VLK_PC_HIV_3, QC_MATERIAL_PRO.low)
    /\ ~InList(VLK_PC_HIV_5, QC_MATERIAL.high)
    /\ ~InList(VLK_PC_HIV_5, QC_MATERIAL_PRO.high)
    /\ \E i \in HivRoutings(VLK_PC_HIV_3) : calls[i].sheet = REPRO1
    /\ \E i \in HivRoutings(VLK_PC_HIV_5) : calls[i].sheet = REPRO2

ExcludedRows == {j \in DOMAIN glims_df.rows : glims_df.rows[j][2] \in SKIP_HIV}

MeasuredRows ==
    UNION {{measurements[t][k].src : k \in 1..Len(measurements[t])} :
           t \in DOMAIN measurements}

\* C6: a row whose QC material is in SKIP_HIV adds no measurement to any
\* list, determine_repro_sheet is never called for it and no cell is
\* written for it.
C6_ExcludedNeverPlaced ==
    is_reproducibility =>
    \A j \in ExcludedRows :
        /\ j \notin MeasuredRows
        /\ \A i \in DOMAIN calls : calls[i].src # j

\* an excluded row that passed the date and analyser tests, next to a row
\* that was written
C6_Witness_ExcludedRow ==
    /\ is_reproducibility
    /\ pc = "processed"
    /\ Written # {}
    /\ \E j \in ExcludedRows :
           /\ parse(glims_df.rows[j][1]) # ParserError
           /\ analyser_number # NoneInt
           /\ Contains(glims_df.rows[j][3], ProToken(analyser_number))
           /\ \E k \in 3..Len(glims_df.rows[j]) :
                  NonPlaceholder(glims_df.rows[j][k])

\* the rows the row loop of build_repro_measurements has passed
RowsDone == {j \in DOMAIN glims_df.rows : pc # "prompt_analyser" /\ j < row_i}

HasEntry(j, index) ==
    LET list == measurements[repro_test_mnemonics[index]]
    IN  \E k \in 1..Len(list) :
            list[k].src = j /\ list[k].value = glims_df.rows[j][3 + index]

\* C9: a row with an unparseable date adds no entry to any list, and every
\* row after it that parses and passes the exclusion and analyser filters
\* adds each of its non-placeholder values.
C9_UnparseableRowSkipped ==
    is_reproducibility =>
    \A j \in RowsDone :
        LET row == glims_df.rows[j]
        IN  /\ parse(row[1]) = ParserError => j \notin MeasuredRows
            /\ RowKept(row) =>
                   \A index \in 1..(Len(row) - 3) :
                       NonPlaceholder(row[3 + index]) => HasEntry(j, index)

\* a kept row after an unparseable one, with its value in the list
C9_Witness_LaterRowKept ==
    /\ is_reproducibility
    /\ \E j \in RowsDone : \E k \in RowsDone :
           /\ j < k
           /\ parse(glims_df.rows[j][1]) = ParserError
           /\ NonPlaceholder(glims_df.rows[j][4])
           /\ RowKept(glims_df.rows[k])
           /\ NonPlaceholder(glims_df.rows[k][4])
           /\ HasEntry(k, 1)

-----------------------------------------------------------------------------
(* Properties of the non-reproducibility workflow *)

\* the rows the row loop of process_skml has finished
SkmlRowsDone == {j \in DOMAIN glims_df.rows : j < row_i}

\* the test-result columns of the CSV: those after the identifier columns
ResultColumns ==
    {c \in 3..Len(glims_df.columns) : glims_df.columns[c] # ORDER_ID}

IsChemistry(mnemonic) ==
    InList(Lower(mnemonic), LowerAll(TEST_MNEMONICS.c_module))
IsImmunoassay(mnemonic) ==
    InList(Lower(mnemonic), LowerAll(TEST_MNEMONICS.e_module))

ModuleSheet(mnemonic) ==
    IF IsChemistry(mnemonic) THEN sheetnames[C_MODULE_SHEET_INDEX + 1]
    ELSE sheetnames[E_MODULE_SHEET_INDEX + 1]

\* value is text with every decimal point turned into a comma
IsCommaFormOf(value, text) ==
    /\ Len(value) = Len(text)
    /\ \A k \in 1..Len(text) :
           value[k] = IF text[k] = "." THEN "," ELSE text[k]

\* C3 as claimed: a record whose testrun is no key of the offset table is
\* not dropped: a warning is emitted and each of its non-placeholder fields
\* that resolves is placed at base column + DEFAULT_TESTRUN_OFFSET.
C3_Claimed_DefaultOffset ==
    ~is_reproducibility =>
    \A j \in SkmlRowsDone :
        LET row == glims_df.rows[j]
        IN  testrun_id_of(row) \notin DOMAIN OFFSET_MAP =>
            /\ \E w \in DOMAIN warnings : warnings[w].src = j
            /\ \A c \in ResultColumns :
                   LET mnemonic == glims_df.columns[c]
                       base == get_sheet_and_column_base(mnemonic, row[1],
                                                         TEST_MNEMONICS)
                   IN  (/\ NonPlaceholder(row[c])
                        /\ base[1] # NoneInt
                        /\ find_test_row_in_worksheet(cells,
                               ModuleSheet(mnemonic), mnemonic) # NoneInt)
                       => \E i \in Updates :
                              /\ calls[i].src = j
                              /\ calls[i].test = Lower(mnemonic)
                              /\ calls[i].col = base[2] +
                                     get_testrun_column_offset(testrun_id_of(row))

\* C8: a non-placeholder value of a chemistry mnemonic, in a record with
\* '8000' in the instrument id and a known testrun, goes to the chemistry
\* worksheet at the mnemonic's row and column C_MODULE_BASE_OFFSET_8000 +
\* offset(testrun), with its decimal point turned into a comma: that is the
\* one update_excel_cell call made for the field, and the cell holds the
\* value unless it was populated before the call.
C8_ChemistryPlacement ==
    ~is_reproducibility =>
    \A j \in SkmlRowsDone : \A c \in ResultColumns :
        LET row == glims_df.rows[j]
            mnemonic == glims_df.columns[c]
            sheet == sheetnames[C_MODULE_SHEET_INDEX + 1]
            excel_row == find_test_row_in_worksheet(cells, sheet, mnemonic)
            made == {i \in Updates : calls[i].src = j
                                     /\ calls[i].test = Lower(mnemonic)}
        IN  (/\ NonPlaceholder(row[c])
             /\ IsChemistry(mnemonic)
             /\ Contains(row[1], S8000)
             /\ testrun_id_of(row) \in DOMAIN OFFSET_MAP
             /\ excel_row # NoneInt)
            => /\ Cardinality(made) = 1
               /\ \A i \in made :
                      /\ calls[i].sheet = sheet
                      /\ calls[i].row = excel_row
                      /\ calls[i].col = C_MODULE_BASE_OFFSET_8000
                                            + OFFSET_MAP[testrun_id_of(row)]
                      /\ IsCommaFormOf(calls[i].value, row[c])
                      /\ calls[i].stored =>
                             CellValue(cells, sheet, calls[i].row, calls[i].col)
                                 = calls[i].value

\* "1.5" of k_a, instrument 8000-1, testrun V_TESTRUN2: "1,5" is in the
\* chemistry sheet at the row of k_a, column 8 + 3
C8_Witness_Written ==
    /\ ~is_reproducibility
    /\ pc = "processed"
    /\ \E i \in Written :
           /\ glims_df.rows[calls[i].src][1] = PATIENT_8000
           /\ glims_df.rows[calls[i].src][2] = V_TESTRUN2
           /\ calls[i].test = k_a
           /\ calls[i].value = <<"1", ",", "5">>
           /\ CellValue(cells, CHEM, 2, 11) = <<"1", ",", "5">>

-----------------------------------------------------------------------------
(* Properties of update_excel_cell, the resolvers and main *)

SameCell(i, j) ==
    /\ calls[i].sheet = calls[j].sheet
    /\ calls[i].row = calls[j].row
    /\ calls[i].col = calls[j].col

NonEmpty(value) == value \notin {None, EmptyStr}

\* C1: once update_excel_cell has stored a non-empty value v1 in an empty
\* cell, a later call for the same cell with another value leaves v1 there;
\* and no call changes a cell that holds a non-empty value.
C1_WriteOnce ==
    /\ [](\A i \in Updates : \A j \in Updates :
              (i < j /\ SameCell(i, j) /\ calls[i].stored
                     /\ NonEmpty(calls[i].value))
              => /\ ~calls[j].stored
                 /\ CellValue(cells, calls[i].sheet, calls[i].row, calls[i].col)
                        = calls[i].value)
    /\ [][\A k \in DOMAIN cells :
              NonEmpty(cells[k]) => k \in DOMAIN cells' /\ cells'[k] = cells[k]]_vars

\* a stored v1, then a call with another non-empty value for the same cell
C1_Witness_SecondCallIgnored ==
    /\ pc = "cell"
    /\ \E i \in Updates : \E j \in Updates :
           /\ i < j
           /\ SameCell(i, j)
           /\ calls[i].stored
           /\ NonEmpty(calls[i].value)
           /\ NonEmpty(calls[j].value)
           /\ calls[j].value # calls[i].value
           /\ CellValue(cells, calls[i].sheet, calls[i].row, calls[i].col)
                  = calls[i].value

Overrides == {i \in DOMAIN calls : calls[i].fn = "apply_hiv_sheet_override"}

\* C4: apply_hiv_sheet_override returns 'REPRO controle 1' for
\* (m_ahiv_eclia_ser, VLK_PC_HIV_3) and (m_hivag_eclia_ser, VLK_PC_HIV_5),
\* 'REPRO controle 2' for (m_hivag_eclia_ser, VLK_PC_HIV_3) and
\* (m_ahiv_eclia_ser, VLK_PC_HIV_5), whatever the default sheet, and the
\* default sheet for every other pair.
C4_HivOverrideTable ==
    \A i \in Overrides :
        LET test == calls[i].test
            qc == calls[i].qc
            default_sheet == calls[i].value
        IN  calls[i].sheet =
                IF test = m_ahiv_eclia_ser /\ qc = VLK_PC_HIV_3
                    THEN "REPRO controle 1"
                ELSE IF test = m_hivag_eclia_ser /\ qc = VLK_PC_HIV_3
                    THEN "REPRO controle 2"
                ELSE IF test = m_ahiv_eclia_ser /\ qc = VLK_PC_HIV_5
                    THEN "REPRO controle 2"
                ELSE IF test = m_hivag_eclia_ser /\ qc = VLK_PC_HIV_5
                    THEN "REPRO controle 1"
                ELSE default_sheet

\* an override against the default, and a near miss left alone
C4_Witness_Overridden ==
    \E i \in Overrides :
        /\ calls[i].test = m_hivag_eclia_ser
        /\ calls[i].qc = VLK_PC_HIV_5
        /\ calls[i].value = REPRO3
        /\ calls[i].sheet = REPRO1

BaseCalls == {i \in DOMAIN calls : calls[i].fn = "get_sheet_and_column_base"}

EqualIgnoringCase(a, b) == Lower(a) = Lower(b)

OnList(mnemonic, list) ==
    \E k \in DOMAIN list : EqualIgnoringCase(mnemonic, list[k])

\* C7: get_sheet_and_column_base returns (0, 8) or (0, 9) for a mnemonic
\* that equals, ignoring case, an entry of the chemistry list, otherwise
\* (1, 14) or (1, 15) for one on the immunoassay list, with 8 and 14 exactly
\* when the instrument id contains '8000', and (None, None) for a mnemonic
\* on neither list; mnemonics that differ only in case give the same result.
C7_BaseColumnTotal ==
    \A i \in BaseCalls :
        LET mnemonic == calls[i].test
            patient_id == calls[i].qc
            result == <<calls[i].row, calls[i].col>>
            is8000 == Contains(patient_id, S8000)
        IN  /\ result =
                   IF OnList(mnemonic, TEST_MNEMONICS.c_module)
                       THEN IF is8000 THEN <<0, 8>> ELSE <<0, 9>>
                   ELSE IF OnList(mnemonic, TEST_MNEMONICS.e_module)
                       THEN IF is8000 THEN <<1, 14>> ELSE <<1, 15>>
                   ELSE <<NoneInt, NoneInt>>
            /\ \A other \in TestNames :
                   EqualIgnoringCase(other, mnemonic) =>
                       get_sheet_and_column_base(other, patient_id,
                                                 TEST_MNEMONICS) = result

\* an upper-case mnemonic found on a lower-case immunoassay list, for an
\* instrument id without '8000'
C7_Witness_CaseInsensitive ==
    \E i \in BaseCalls :
        /\ calls[i].test = M_AHIV_ECLIA_SER
        /\ InList(m_ahiv_eclia_ser, TEST_MNEMONICS.e_module)
        /\ ~InList(M_AHIV_ECLIA_SER, TEST_MNEMONICS.e_module)
        /\ calls[i].qc = <<"8","0","-","0","0">>
        /\ <<calls[i].row, calls[i].col>> = <<1, 15>>

\* C10 as claimed: after any prompt was cancelled the workbook is never
\* saved.
C10_Claimed_NoSaveAfterCancel == cancelled # {} => saved = 0

\* C10 amended: cancelling the CSV picker or the template picker ends the
\* run before anything is loaded, processed or saved, and cancelling the
\* save-as dialog ends it with the workbook unsaved; cancelling the
\* separator entry (';' is used) or the analyser-number entry (no filter)
\* does not end the run.
C10_CancelEndsRun ==
    /\ ("csv file" \in cancelled \/ "template file" \in cancelled) =>
           /\ pc = "exit"
           /\ saved = 0
           /\ calls = <<>>
           /\ glims_df = NoFrame
    /\ "save path" \in cancelled => pc = "done" /\ saved = 0
    /\ pc \in {"exit", "done"} => ~ENABLED Next
    /\ (cancelled # {} /\ cancelled \subseteq {"separator", "analyser number"})
           => pc # "exit"
    /\ (pc = "build" /\ "analyser number" \in cancelled) =>
           analyser_number = NoneInt

\* results were written to the workbook in memory and the save-as dialog
\* was cancelled
C10_Witness_SaveCancelled ==
    /\ "save path" \in cancelled
    /\ Written # {}
    /\ saved = 0
    /\ pc = "done"

-----------------------------------------------------------------------------
(* Properties of main: saving *)

\* the selected workflow has returned: its loops are over
WorkflowCompleted ==
    IF is_reproducibility THEN test_i > Len(test_names) /\ meas_i = 0
    ELSE row_i > Len(glims_df.rows) /\ fld_i = 0

\* every value a call stored is still in its cell
StoredValuesKept ==
    \A i \in Written :
        CellValue(cells, calls[i].sheet, calls[i].row, calls[i].col)
            = calls[i].value

\* C11: the workbook is saved at most once, and only after the selected
\* workflow has run to completion and a save path was chosen; when
\* processing raises, the values already written stay in the workbook in
\* memory and the run ends without saving; when the save dialog is
\* cancelled the run ends without saving.
C11_SavedOnceAfterProcessing ==
    /\ saved \in {0, 1}
    /\ saved = 1 => /\ pc = "done"
                    /\ WorkflowCompleted
                    /\ "save path" \notin cancelled
    /\ pc = "raised" => saved = 0 /\ StoredValuesKept /\ ~ENABLED Next
    /\ "save path" \in cancelled => saved = 0 /\ pc = "done" /\ ~ENABLED Next

\* determine_repro_sheet raised after a value of an earlier measurement
\* was stored
C11_Witness_RaisedAfterWrite ==
    /\ pc = "raised"
    /\ Written # {}
    /\ \E i \in Routings : calls[i].sheet \in Errors
    /\ saved = 0

-----------------------------------------------------------------------------
(* Properties of both workflows: placeholder and absent values *)

\* the entries of the measurement lists
ListEntries ==
    UNION {{measurements[t][k] : k \in 1..Len(measurements[t])} :
           t \in DOMAIN measurements}

\* C12 as claimed: a field holding the placeholder "-" or no value causes
\* no cell write, so no cell written by a run holds "-" or an absent
\* value, and in the reproducibility workflow such a field adds no entry
\* to its mnemonic's list and takes no row.
C12_Claimed_PlaceholderNeverWritten ==
    /\ \A i \in Updates : NonPlaceholder(calls[i].value)
    /\ \A m \in ListEntries : NonPlaceholder(m.value)

-----------------------------------------------------------------------------
(* Properties of the non-reproducibility workflow: failed placements *)

\* the rows process_skml has finished whose testrun is in the offset table
SkmlRowsPlaced ==
    {j \in SkmlRowsDone :
         testrun_id_of(glims_df.rows[j]) \in DOMAIN OFFSET_MAP}

\* the update_excel_cell calls made for one field of one row
FieldCalls(j, mnemonic) ==
    {i \in Updates : calls[i].src = j /\ calls[i].test = mnemonic}

\* C13: a field whose placement fails (mnemonic on neither module list, or
\* no row for it in the worksheet) causes no cell write, and every other
\* non-placeholder field of the same and of later records whose placement
\* resolves is written; the loops over fields and records run to the end.
C13_FailedFieldSkippedAlone ==
    ~is_reproducibility =>
    /\ \A j \in SkmlRowsPlaced :
       \A f \in 1..Len(skml_test_mnemonics) :
           LET row == glims_df.rows[j]
               mnemonic == skml_test_mnemonics[f]
               value == row[mnemonic_start_col + f]
               base == get_sheet_and_column_base(mnemonic, row[1],
                                                 TEST_MNEMONICS)
               sheet == ModuleSheet(mnemonic)
               found == find_test_row_in_worksheet(cells, sheet, mnemonic)
           IN  IF base = <<NoneInt, NoneInt>> \/ found = NoneInt
               THEN FieldCalls(j, mnemonic) = {}
               ELSE NonPlaceholder(value) =>
                    /\ \E i \in FieldCalls(j, mnemonic) :
                           /\ calls[i].sheet = sheet
                           /\ calls[i].row = found
                           /\ calls[i].col =
                                  base[2] + OFFSET_MAP[testrun_id_of(row)]
                    /\ CellPopulated(cells, sheet, found,
                                     base[2] + OFFSET_MAP[testrun_id_of(row)])
    /\ pc = "processed" => row_i = Len(glims_df.rows) + 1
    /\ pc \in {"skml", "processed"}
    /\ pc = "skml" => /\ row_i \in 1..(Len(glims_df.rows) + 1)
                      /\ fld_i \in 0..(Len(skml_test_mnemonics) + 1)
                      /\ fld_i > 0 => row_i <= Len(glims_df.rows)

\* a record in which one field is on no module list, one has no row in
\* its worksheet and a third was written, followed by a record that was
\* written too
C13_Witness_WrittenAfterFailures ==
    /\ ~is_reproducibility
    /\ pc = "processed"
    /\ \E j \in SkmlRowsPlaced : \E k \in SkmlRowsPlaced :
           /\ j < k
           /\ NonPlaceholder(glims_df.rows[j][3])
           /\ NonPlaceholder(glims_df.rows[j][4])
           /\ skml_test_mnemonics[1] = k_zz
           /\ get_sheet_and_column_base(k_zz, glims_df.rows[j][1],
                                        TEST_MNEMONICS) = <<NoneInt, NoneInt>>
           /\ skml_test_mnemonics[2] = m_hivag_eclia_ser
           /\ find_test_row_in_worksheet(cells, IMMUNO, m_hivag_eclia_ser)
                  = NoneInt
           /\ \E i \in FieldCalls(j, k_b) : calls[i].stored
           /\ \E i \in FieldCalls(k, k_b) : calls[i].stored

-----------------------------------------------------------------------------
(* Properties of the non-reproducibility workflow: the header layout *)

\* C14 as claimed: the mnemonics start at the third column without an
\* 'Order id' column and at the fourth with one, so that every test-result
\* column is treated as a mnemonic whatever the first mnemonic is called,
\* and each mnemonic's value is read from its own column.
C14_Claimed_EveryResultColumnRead ==
    (~is_reproducibility /\ pc = "processed") =>
    /\ has_order_column <=> Lower(glims_df.columns[3]) = ORDER_ID
    /\ \A j \in SkmlRowsPlaced : \A c \in ResultColumns :
           LET row == glims_df.rows[j]
               mnemonic == Lower(glims_df.columns[c])
               base == get_sheet_and_column_base(mnemonic, row[1],
                                                 TEST_MNEMONICS)
               found == find_test_row_in_worksheet(cells,
                            ModuleSheet(mnemonic), mnemonic)
           IN  (/\ NonPlaceholder(row[c])
                /\ base # <<NoneInt, NoneInt>>
                /\ found # NoneInt)
               => \E i \in FieldCalls(j, mnemonic) :
                      calls[i].value = value_to_write(row[c])

-----------------------------------------------------------------------------
(* Properties of determine_repro_sheet *)

\* the calls of determine_repro_sheet with pro_validation true
ProDetermineCalls ==
    {i \in Routings : pc = "resolved" /\ calls[i].stored}

IsInterference(qc_material) ==
    qc_material \in {VLK_Hemolyse, VLK_Ict_V, VLK_Lip_V}
ListedLow(qc_material) ==
    InList(qc_material, QC_MATERIAL.low) \/ InList(qc_material, QC_MATERIAL_PRO.low)
ListedHigh(qc_material) ==
    InList(qc_material, QC_MATERIAL.high) \/ InList(qc_material, QC_MATERIAL_PRO.high)
HasMarker(qc_material) ==
    Contains(qc_material, VLK_Bil) \/ Contains(qc_material, VLK_Vrij)

\* C15: with pro_validation true determine_repro_sheet decides by first
\* match: an interference material by the analyser alone (C503 -> 1,
\* C703 -> 2, VLK_C500PRO-01 -> 3, any other an error), never by the tier
\* lists; else a material on a low list of either table -> 1; else one on
\* a high list of either table -> 2; else one containing VLK_Bil or
\* VLK_Vrij -> 3; else the unknown QC material error.
C15_DecisionOrder ==
    \A i \in ProDetermineCalls :
        LET qc_material == calls[i].qc
            analyser == calls[i].value
            sheet == calls[i].sheet
        IN  /\ IsInterference(qc_material) =>
                /\ analyser \in {VLK_PRO_4_C503, VLK_PRO_3_C503}
                       => sheet = REPRO1
                /\ analyser \in {VLK_PRO_4_C703, VLK_PRO_3_C703}
                       => sheet = REPRO2
                /\ analyser = VLK_C500PRO_01 => sheet = REPRO3
                /\ analyser \notin {VLK_PRO_4_C503, VLK_PRO_3_C503,
                                    VLK_PRO_4_C703, VLK_PRO_3_C703,
                                    VLK_C500PRO_01}
                       => sheet = ErrUnknownAnalyser
            /\ ~IsInterference(qc_material) =>
                /\ ListedLow(qc_material) => sheet = REPRO1
                /\ (~ListedLow(qc_material) /\ ListedHigh(qc_material))
                       => sheet = REPRO2
                /\ (/\ ~ListedLow(qc_material)
                    /\ ~ListedHigh(qc_material)
                    /\ HasMarker(qc_material)) => sheet = REPRO3
                /\ (/\ ~ListedLow(qc_material)
                    /\ ~ListedHigh(qc_material)
                    /\ ~HasMarker(qc_material)) => sheet = ErrUnknownQc

\* an interference material that is on a low list, resolved by its C703
\* analyser to 'REPRO controle 2'
C15_Witness_InterferenceListedLow ==
    \E i \in ProDetermineCalls :
        /\ IsInterference(calls[i].qc)
        /\ ListedLow(calls[i].qc)
        /\ calls[i].value = VLK_PRO_3_C703
        /\ calls[i].sheet = REPRO2

-----------------------------------------------------------------------------
(* Properties of write_repro_results: the row counters *)

\* inside the loop over the measurements of one test
InMeasurementLoop == is_reproducibility /\ meas_i > 0

\* the update_excel_cell calls made so far for the current test on a sheet
CurrentUpdates(sheet) ==
    {i \in Updates : /\ calls[i].test = test_names[test_i]
                     /\ calls[i].sheet = sheet}

\* C16 as claimed: the row counter of a worksheet advances only when the
\* write on that worksheet stored a value, so the counter stands at the
\* first data row plus the number of values stored there for the test.
C16_Claimed_CountsStoredWrites ==
    InMeasurementLoop =>
    /\ row_control_1 = REPRO_FIRST_DATA_ROW
           + Cardinality(CurrentUpdates(REPRO1) \cap Written)
    /\ row_control_2 = REPRO_FIRST_DATA_ROW
           + Cardinality(CurrentUpdates(REPRO2) \cap Written)

\* C16 amended: the row counter of a worksheet advances with every call of
\* update_repro_row for that worksheet, whether or not update_excel_cell
\* stored the value; a measurement that is skipped or routed elsewhere
\* leaves it, and a call for one worksheet never changes the counter of
\* the other.
C16_CountsUpdateCalls ==
    InMeasurementLoop =>
    /\ row_control_1 = REPRO_FIRST_DATA_ROW
           + Cardinality(CurrentUpdates(REPRO1))
    /\ row_control_2 = REPRO_FIRST_DATA_ROW
           + Cardinality(CurrentUpdates(REPRO2))
    /\ \A i \in CurrentUpdates(REPRO1) : calls[i].row < row_control_1
    /\ \A i \in CurrentUpdates(REPRO2) : calls[i].row < row_control_2

\* a call on 'REPRO controle 1' that found its cell populated and stored
\* nothing, after which the counter of that sheet stands one row further
\* and the counter of 'REPRO controle 2' at the first data row
C16_Witness_NoOpAdvances ==
    /\ InMeasurementLoop
    /\ \E i \in CurrentUpdates(REPRO1) \ Written :
           row_control_1 = calls[i].row + 1
    /\ CurrentUpdates(REPRO1) \cap Written # {}
    /\ row_control_2 = REPRO_FIRST_DATA_ROW

-----------------------------------------------------------------------------
(* Properties of write_repro_results: failed resolutions *)

\* the list entries of the tests whose loop is over
EntriesDone ==
    UNION {{[test |-> test_names[t], src |-> measurements[test_names[t]][k].src] :
                k \in 1..Len(measurements[test_names[t]])} :
           t \in 1..(test_i - 1)}

\* C17 as claimed: a measurement whose worksheet resolution fails (unknown
\* QC material, unknown analyser of an interference material, worksheet
\* absent from the workbook) or whose header column is not found is
\* skipped alone, with a warning, and every remaining measurement of the
\* mnemonic and of the later mnemonics is still processed.
C17_Claimed_FailedMeasurementSkipped ==
    is_reproducibility =>
    /\ pc # "raised"
    /\ \A i \in Routings :
           (calls[i].sheet \in Errors \/ ~InList(calls[i].sheet, sheetnames))
           => \E w \in DOMAIN warnings : warnings[w].src = calls[i].src
    /\ \A e \in EntriesDone :
           \E i \in Routings : calls[i].test = e.test /\ calls[i].src = e.src

-----------------------------------------------------------------------------
(* Properties of the value conversion *)

Digits == {"0", "1", "2", "3", "4", "5", "6", "7", "8", "9"}

\* a string of digits with exactly one decimal point among them
IsDecimalNumber(text) ==
    /\ IsStr(text)
    /\ \A k \in 1..Len(text) : text[k] \in Digits \cup {"."}
    /\ Cardinality({k \in 1..Len(text) : text[k] = "."}) = 1
    /\ \E k \in 1..Len(text) : text[k] \in Digits

\* the CSV field a reproducibility call was made for
ReproInputOf(i) ==
    glims_df.rows[calls[i].src][3 + IndexOf(calls[i].test, repro_test_mnemonics)]

\* C18 as claimed: the decimal point of a decimal-number string is
\* rewritten to a comma, and every string that is not a decimal number,
\* also one that contains '.', is written unchanged.
C18_Claimed_NonNumericUnchanged ==
    is_reproducibility =>
    \A i \in Updates :
        /\ IsDecimalNumber(ReproInputOf(i)) =>
               IsCommaFormOf(calls[i].value, ReproInputOf(i))
        /\ (IsStr(ReproInputOf(i)) /\ ~IsDecimalNumber(ReproInputOf(i))) =>
               calls[i].value = ReproInputOf(i)

-----------------------------------------------------------------------------
(* Properties of write_repro_results: 'REPRO controle 3' *)

\* the step handled a measurement that is routed to 'REPRO controle 3'
RoutedToThird ==
    /\ Len(calls') > Len(calls)
    /\ calls'[Len(calls) + 1].fn = "determine_repro_sheet"
    /\ calls'[Len(calls) + 1].sheet = REPRO3

\* C19: a measurement routed (after the HIV override) to 'REPRO
\* controle 3' changes no cell and neither row counter, and every cell the
\* reproducibility workflow writes lies in 'REPRO controle 1' or 'REPRO
\* controle 2' at row 3 or below it.
C19_ThirdSheetUntouched ==
    /\ [](is_reproducibility =>
             /\ \A i \in Updates :
                    /\ calls[i].sheet \in {REPRO1, REPRO2}
                    /\ calls[i].row >= REPRO_FIRST_DATA_ROW
             /\ \A i \in Routings : \A j \in Updates :
                    calls[i].sheet = REPRO3 =>
                        ~(calls[j].src = calls[i].src
                              /\ calls[j].test = calls[i].test))
    /\ [][(is_reproducibility /\ RoutedToThird) =>
              /\ cells' = cells
              /\ row_control_1' = row_control_1
              /\ row_control_2' = row_control_2
              /\ Len(calls') = Len(calls) + 1]_vars

\* a run that ended with one measurement written and another routed to
\* 'REPRO controle 3', whose header has the mnemonic's column
C19_Witness_ThirdSheetRouted ==
    /\ is_reproducibility
    /\ pc = "processed"
    /\ Written # {}
    /\ \E i \in Routings :
           /\ calls[i].sheet = REPRO3
           /\ get_repro_test_column(cells, REPRO3, calls[i].test) # NoneInt

====
